---------------------------- MODULE Spec2Model ----------------------------
(***************************************************************************)
(* Asynchronous push of a project (mergin/client_push.py).                 *)
(*                                                                         *)
(* One controller thread runs push_project_async and afterwards the        *)
(* polling / lifecycle calls on the returned job; the upload tasks run on  *)
(* the threads of a ThreadPoolExecutor(max_workers=4).  The remote service *)
(* and the local project store (MerginProject) are the environment: each   *)
(* of their answers is a nondeterministic choice.                          *)
(***************************************************************************)
EXTENDS Integers, Sequences, FiniteSets, TLC

(***************************************************************************)
(* Bounds of the model.                                                    *)
(***************************************************************************)
MaxItems == 3      \* upload queue items (chunks) of a change set
MaxCalls == 2      \* polling / lifecycle calls the caller makes on one job
LocalVersion == 1  \* version of the local copy when the push starts
MaxPlanFiles == 2  \* added files of a change set given to the chunk planner
MaxChunkIds == 3   \* chunk ids a file entry given to the chunk planner carries

(***************************************************************************)
(* Program constants.                                                      *)
(***************************************************************************)
UPLOAD_CHUNK_SIZE == 10 * 1024 * 1024
max_workers == 4

NoDiff == -1       \* a file entry without a 'diff' key
None == -1         \* Python's None: no transaction id, no server version

Min(a, b) == IF a < b THEN a ELSE b

RECURSIVE SumSeq(_)
SumSeq(s) == IF s = << >> THEN 0 ELSE Head(s) + SumSeq(Tail(s))

(***************************************************************************)
(* The change sets the local store may report.  A file entry carries its   *)
(* size, the size of its diff (NoDiff when it is uploaded whole) and the   *)
(* number of chunk ids the server assigns to it.                           *)
(***************************************************************************)
UploadSize(file) == IF file.diff # NoDiff THEN file.diff ELSE file.size

CeilDiv(n, d) == (n + d - 1) \div d

FileEntry(size, diff) ==
    [size |-> size, diff |-> diff,
     chunks |-> CeilDiv(IF diff # NoDiff THEN diff ELSE size, UPLOAD_CHUNK_SIZE)]

\* an added file of two chunks; an updated file uploaded as a small diff
AddedFiles == {FileEntry(UPLOAD_CHUNK_SIZE + 1, NoDiff)}
UpdatedFiles == {FileEntry(UPLOAD_CHUNK_SIZE + 1, 2)}

SeqsUpTo(S, n) == UNION {[1..k -> S] : k \in 0..n}

NoChanges == [added |-> << >>, updated |-> << >>, removed |-> 0]

\* len(changes): the keys of the change set, not the entries under them
ChangeCount_keys(ch) == 3

\* sum(len(v) for v in changes.values())
ChangeCount(ch) == Len(ch.added) + Len(ch.updated) + ch.removed

(***************************************************************************)
(* Chunk planner: the upload queue items (their sizes, in order) of a list *)
(* of upload files, and the total size.                                    *)
(***************************************************************************)
\* the chunk indices are counted from 1
FileItems_from1(file) ==
    [k \in 1..file.chunks |->
        Min(UPLOAD_CHUNK_SIZE, UploadSize(file) - k * UPLOAD_CHUNK_SIZE)]

\* lines 189-191: one item per chunk id of the file, chunk_index from 0
FileItems(file) ==
    [k \in 1..file.chunks |->
        Min(UPLOAD_CHUNK_SIZE, UploadSize(file) - (k - 1) * UPLOAD_CHUNK_SIZE)]

RECURSIVE PlanItems(_)
PlanItems(files) ==
    IF files = << >> THEN << >>
    ELSE FileItems(Head(files)) \o PlanItems(Tail(files))

RECURSIVE PlanTotal(_)
PlanTotal(files) ==
    IF files = << >> THEN 0
    ELSE UploadSize(Head(files)) + PlanTotal(Tail(files))

\* the change sets of the model: nothing changed, only a removal, or added
\* files and at most one updated file that make at most MaxItems upload
\* queue items
ChangeSets ==
    {ch \in [added : SeqsUpTo(AddedFiles, MaxItems),
             updated : SeqsUpTo(UpdatedFiles, 1),
             removed : 0..1] :
        /\ Len(PlanItems(ch.added \o ch.updated)) <= MaxItems
        /\ ch.removed = 1 => ch.added \o ch.updated = << >>}

\* the change sets given to the chunk planner alone: files of every size
\* around the chunk size, whole or as a diff, with any number of chunk ids
PlanSizes == {0, 1, UPLOAD_CHUNK_SIZE, UPLOAD_CHUNK_SIZE + 1,
              2 * UPLOAD_CHUNK_SIZE}
PlanDiffSizes == {2, UPLOAD_CHUNK_SIZE + 1}

PlanAddedFiles ==
    {[size |-> size, diff |-> NoDiff, chunks |-> n] :
        size \in PlanSizes, n \in 0..MaxChunkIds}

PlanUpdatedFiles ==
    {[size |-> UPLOAD_CHUNK_SIZE + 1, diff |-> diff, chunks |-> n] :
        diff \in PlanDiffSizes, n \in 0..MaxChunkIds}

PlanChangeSets ==
    [added : SeqsUpTo(PlanAddedFiles, MaxPlanFiles),
     updated : SeqsUpTo(PlanUpdatedFiles, 1),
     removed : {0}]

VARIABLES
    env,                \* what the local store and the server answer to
                        \* the checks of push_project_async
    pc,                 \* position of the controller thread
    metadata,           \* mp.metadata["version"] of the local store
    applied,            \* number of change sets applied to the local files
    changes,            \* job.changes
    transaction_id,     \* job.transaction_id
    total_size,         \* job.total_size
    transferred_size,   \* job.transferred_size
    upload_queue_items, \* job.upload_queue_items (the item sizes)
    is_cancelled,       \* job.is_cancelled
    executor,           \* job.executor: "none", "running", "shutdown"
    futures,            \* job.futures: [state, exception] per submitted item
    server_resp,        \* job.server_resp
    tmp_dir,            \* job.tmp_dir: "none", "held", "released"
    tpc,                \* position of each item's _do_upload call
    tmp,                \* value of job.transferred_size read by an item's +=
    reqs,               \* requests sent to the remote service, by kind; of
                        \* the cancel requests of push_project_finalize,
                        \* those the server answered with an error; of the
                        \* chunk requests, those sent after the flag
                        \* is_cancelled was set
    posted,             \* items whose chunk request was sent
    acked,              \* items whose chunk the server acknowledged correctly
    calls,              \* calls made on the job so far
    last,               \* the last call that completed, and its outcome
    raised,             \* per item: times push_project_is_running raised its error
    busy                \* whether calls were still executing when the last
                        \* push_project_finalize / push_project_cancel began

vars == <<env, pc, metadata, applied, changes, transaction_id, total_size,
          transferred_size, upload_queue_items, is_cancelled, executor,
          futures, server_resp, tmp_dir, tpc, tmp, reqs, posted, acked,
          calls, last, raised, busy>>

jobVars == <<changes, transaction_id, total_size, transferred_size,
             upload_queue_items, is_cancelled, executor, futures,
             server_resp, tmp_dir>>
workerVars == <<tpc, tmp, posted, acked>>
storeVars == <<metadata, applied>>

NoResp == [kind |-> "none", version |-> None]

\* server_info["version"]: empty for a project without a version
ServerVersions == {None} \cup (1..LocalVersion + 1)

\* server_info["version"] if server_info["version"] else "v0"
ServerVersion(info_version) == IF info_version = None THEN 0 ELSE info_version

\* the version the server gives the project when a transaction commits
NextVersion(v) == v + 1

Returned(op, ret) == [op |-> op, ret |-> ret]

\* the answers to the checks; the free space is asked for only when the
\* user owns the project
Envs ==
    {e \in [unfinished_pull : BOOLEAN, info_ok : BOOLEAN,
            info_version : ServerVersions, writer : BOOLEAN,
            owner : BOOLEAN, enough_free_space : BOOLEAN] :
        ~e.owner => e.enough_free_space}

Init ==
    /\ env \in Envs
    /\ pc = "start"
    /\ metadata = LocalVersion
    /\ applied = 0
    /\ changes = NoChanges
    /\ transaction_id = None
    /\ total_size = 0
    /\ transferred_size = 0
    /\ upload_queue_items = << >>
    /\ is_cancelled = FALSE
    /\ executor = "none"
    /\ futures = << >>
    /\ server_resp = NoResp
    /\ tmp_dir = "none"
    /\ tpc = << >>
    /\ tmp = << >>
    /\ reqs = [open |-> 0, finish |-> 0, cancel_worker |-> 0,
               cancel_finalize |-> 0, cancel_user |-> 0,
               cancel_finalize_errors |-> 0, chunk_after_flag |-> 0]
    /\ posted = {}
    /\ acked = {}
    /\ calls = 0
    /\ last = Returned("none", "none")
    /\ raised = << >>
    /\ busy = FALSE

Sent(r, kind) == [r EXCEPT ![kind] = @ + 1]

\* a chunk request, counted when the flag was set before it was sent
SentChunk(r) ==
    [r EXCEPT !.chunk_after_flag = IF is_cancelled THEN @ + 1 ELSE @]

Items == 1..Len(upload_queue_items)
Submitted == 1..Len(futures)

Pending(i) == futures[i].state = "PENDING"
Running(i) == futures[i].state = "RUNNING"
Done(i) == futures[i].state = "FINISHED"

AllSubmitted == Len(futures) = Len(upload_queue_items)
\* the pool has drained: every submitted call has returned or raised
Drained == \A i \in Submitted : Done(i)

\* a shutdown that does not wait for the calls (wait=False)
executor_shutdown_nowait == TRUE

\* lines 245, 306: job.executor.shutdown(wait=True) returns
executor_shutdown == Drained

\* a check that only rejects too many bytes
size_mismatch_gt == transferred_size > total_size

\* line 254: job.transferred_size != job.total_size
size_mismatch == transferred_size # total_size

\* the exceptions of the futures are not looked at
FirstException_lost(futs, i) == "none"

\* the exception of the first future, in list order, that carries one
RECURSIVE FirstException(_, _)
FirstException(futs, i) ==
    IF i > Len(futs) THEN "none"
    ELSE IF futs[i].exception # "none" THEN futs[i].exception
    ELSE FirstException(futs, i + 1)

\* the job was made without a pool
with_upload_of_files_always == TRUE

\* line 242: with_upload_of_files = job.executor is not None
with_upload_of_files == executor # "none"

\* the error of the cancel request takes the place of the finish error
finish_failed_error_masked(cancel_ok) ==
    IF cancel_ok THEN "FinishError" ELSE "CancelError"

\* lines 264-277: what push_project_finalize raises when the finish request
\* failed: the error of the finish request, whatever the cancel request gave
finish_failed_error(cancel_ok) == "FinishError"

\* lines 270-276: the cancel request after a failed finish request
SentCancel(r, cancel_ok) ==
    [r EXCEPT !.cancel_finalize = @ + 1,
              !.cancel_finalize_errors = IF cancel_ok THEN @ ELSE @ + 1]

(***************************************************************************)
(* push_project_finalize, from the check of the futures on (the pool has   *)
(* been shut down and has drained, or there is no pool).  op names the     *)
(* call the outcome is reported to; resp0 is job.server_resp and r0 the    *)
(* requests sent on entry.                                                 *)
(***************************************************************************)
FinalizeBody(op, resp0, r0) ==
    LET exc == FirstException(futures, 1) IN
    IF with_upload_of_files /\ exc # "none" THEN
        /\ last' = Returned(op, exc)
        /\ server_resp' = resp0
        /\ reqs' = r0
        /\ UNCHANGED <<metadata, applied, tmp_dir>>
    ELSE IF size_mismatch THEN
        /\ last' = Returned(op, "SizeMismatch")
        /\ server_resp' = resp0
        /\ reqs' = r0
        /\ UNCHANGED <<metadata, applied, tmp_dir>>
    ELSE \E finish_ok \in BOOLEAN, apply_ok \in BOOLEAN :
        IF with_upload_of_files /\ ~finish_ok THEN
            \E cancel_ok \in BOOLEAN :
                /\ reqs' = SentCancel(Sent(r0, "finish"), cancel_ok)
                /\ last' = Returned(op, finish_failed_error(cancel_ok))
                /\ server_resp' = resp0
                /\ UNCHANGED <<metadata, applied, tmp_dir>>
        ELSE
            LET resp == IF with_upload_of_files
                        THEN [kind |-> "finish", version |-> NextVersion(metadata)]
                        ELSE resp0
            IN
            /\ reqs' = IF with_upload_of_files THEN Sent(r0, "finish") ELSE r0
            /\ server_resp' = resp
            /\ metadata' = resp.version
            /\ IF apply_ok
               THEN /\ applied' = applied + 1
                    /\ tmp_dir' = "released"
                    /\ last' = Returned(op, "None")
               ELSE /\ UNCHANGED <<applied, tmp_dir>>
                    /\ last' = Returned(op, "ApplyError")

(***************************************************************************)
(* push_project_async                                                      *)
(***************************************************************************)
\* the checks without the comparison of the versions
PreconditionError_noversion(e) ==
    CASE e.unfinished_pull -> "UnfinishedPull"
      [] ~e.info_ok -> "ProjectInfoError"
      [] ~e.writer -> "NoWriteAccess"
      [] e.owner /\ ~e.enough_free_space -> "StorageLimit"
      [] OTHER -> "none"

\* lines 84-137: the error push_project_async raises before it opens a
\* transaction, "none" when every check passes
PreconditionError(e) ==
    CASE e.unfinished_pull -> "UnfinishedPull"
      [] ~e.info_ok -> "ProjectInfoError"
      [] ~e.writer -> "NoWriteAccess"
      [] metadata # ServerVersion(e.info_version) -> "VersionMismatch"
      [] e.owner /\ ~e.enough_free_space -> "StorageLimit"
      [] OTHER -> "none"

\* lines 83-141: the checks, the change set, the temporary directory; S is
\* the set of change sets the local store may report
Begin(S) ==
    /\ pc = "start"
    /\ \E ch \in S :
        LET err == PreconditionError(env) IN
        /\ tmp_dir' = IF err \in {"StorageLimit", "none"} THEN "held" ELSE tmp_dir
        /\ IF err # "none" THEN
               /\ pc' = "done"
               /\ last' = Returned("push_project_async", err)
               /\ UNCHANGED changes
           ELSE IF ChangeCount(ch) = 0 THEN
               /\ pc' = "done"
               /\ last' = Returned("push_project_async", "None")
               /\ UNCHANGED changes
           ELSE
               /\ pc' = "open"
               /\ changes' = ch
               /\ UNCHANGED last
    /\ UNCHANGED <<env, transaction_id, total_size, transferred_size,
                   upload_queue_items, is_cancelled, executor, futures,
                   server_resp, reqs, calls, raised, busy>>
    /\ UNCHANGED <<workerVars, storeVars>>

push_project_async_begin == Begin(ChangeSets)

\* lines 143-201: the transaction-open request, the job, the chunk planner
push_project_async_open ==
    /\ pc = "open"
    /\ \E open_ok \in BOOLEAN :
        IF ~open_ok THEN
            /\ reqs' = Sent(reqs, "open")
            /\ pc' = "done"
            /\ last' = Returned("push_project_async", "OpenError")
            /\ UNCHANGED <<transaction_id, total_size, upload_queue_items,
                           executor, server_resp, tmp_dir, tpc, tmp, raised>>
            /\ UNCHANGED storeVars
        ELSE
            LET upload_files == changes.added \o changes.updated
                resp == [kind |-> "open", version |-> NextVersion(metadata)]
            IN
            IF upload_files = << >> THEN
                /\ pc' = "done"
                /\ FinalizeBody("push_project_async", resp, Sent(reqs, "open"))
                /\ UNCHANGED <<transaction_id, total_size, upload_queue_items,
                               executor, tpc, tmp, raised>>
            ELSE
                /\ reqs' = Sent(reqs, "open")
                /\ pc' = "submit"
                /\ transaction_id' = 1
                /\ upload_queue_items' = PlanItems(upload_files)
                /\ total_size' = PlanTotal(upload_files)
                /\ executor' = "running"
                /\ tpc' = [i \in 1..Len(PlanItems(upload_files)) |-> "queued"]
                /\ tmp' = [i \in 1..Len(PlanItems(upload_files)) |-> 0]
                /\ raised' = [i \in 1..Len(PlanItems(upload_files)) |-> 0]
                /\ UNCHANGED <<server_resp, tmp_dir, last>>
                /\ UNCHANGED storeVars
    /\ UNCHANGED <<changes, transferred_size, is_cancelled, futures,
                   posted, acked, calls, busy, env>>

\* lines 202-204: one item is submitted to the executor
push_project_async_submit ==
    /\ pc = "submit"
    /\ ~AllSubmitted
    /\ futures' = Append(futures, [state |-> "PENDING", exception |-> "none"])
    /\ UNCHANGED <<pc, changes, transaction_id, total_size, transferred_size,
                   upload_queue_items, is_cancelled, executor, server_resp,
                   tmp_dir, reqs, calls, last, raised, busy, env>>
    /\ UNCHANGED <<workerVars, storeVars>>

\* line 206: the job is returned to the caller
push_project_async_return ==
    /\ pc = "submit"
    /\ AllSubmitted
    /\ pc' = "idle"
    /\ last' = Returned("push_project_async", "job")
    /\ UNCHANGED <<jobVars, workerVars, storeVars, reqs, calls, raised, busy, env>>

(***************************************************************************)
(* The worker pool: ThreadPoolExecutor(max_workers=4) runs the submitted   *)
(* calls _do_upload(item, job) in submission order, at most max_workers at *)
(* a time.  A future is PENDING until a thread takes it, RUNNING while its *)
(* call executes, FINISHED once the thread has stored the call's result or *)
(* exception in it.                                                        *)
(*                                                                         *)
(* tpc[i] is the position of call i: "queued", "check" (line 318), "post"  *)
(* (line 69), "cancel" (line 74), "read" and "write" (line 322), then the  *)
(* way the call left _do_upload ("returned", or the exception raised) and  *)
(* "end" once the future holds it.                                         *)
(***************************************************************************)
Exits == {"returned", "TransportError", "ChunkMismatch"}

workerFrame == <<pc, changes, transaction_id, total_size, upload_queue_items,
                 executor, server_resp, tmp_dir, calls, last, raised,
                 metadata, applied, busy, env>>

\* a pool thread takes the next work item of the queue
worker_start(i) ==
    /\ Pending(i)
    /\ \A j \in 1..(i - 1) : ~Pending(j)
    /\ Cardinality({j \in Submitted : Running(j)}) < max_workers
    /\ futures' = [futures EXCEPT ![i].state = "RUNNING"]
    /\ tpc' = [tpc EXCEPT ![i] = "check"]
    /\ UNCHANGED <<workerFrame, transferred_size, is_cancelled, tmp, posted,
                   acked, reqs>>

\* the pool thread stores the result or the exception of the call
worker_finish(i) ==
    /\ tpc[i] \in Exits
    /\ futures' = [futures EXCEPT ![i] =
                     [state |-> "FINISHED",
                      exception |-> IF tpc[i] = "returned" THEN "none"
                                    ELSE tpc[i]]]
    /\ tpc' = [tpc EXCEPT ![i] = "end"]
    /\ UNCHANGED <<workerFrame, transferred_size, is_cancelled, tmp, posted,
                   acked, reqs>>

\* the flag is not looked at
do_upload_check_noflag(i) ==
    /\ tpc[i] = "check"
    /\ tpc' = [tpc EXCEPT ![i] = "post"]
    /\ UNCHANGED <<workerFrame, transferred_size, is_cancelled, futures, tmp,
                   posted, acked, reqs>>

\* lines 318-319: if job.is_cancelled: return
do_upload_check(i) ==
    /\ tpc[i] = "check"
    /\ tpc' = [tpc EXCEPT ![i] = IF is_cancelled THEN "returned" ELSE "post"]
    /\ UNCHANGED <<workerFrame, transferred_size, is_cancelled, futures, tmp,
                   posted, acked, reqs>>

\* lines 59-72: the chunk request and the server's acknowledgement of it,
\* or the ClientError of the transport
upload_blocking_post(i) ==
    /\ tpc[i] = "post"
    /\ posted' = posted \cup {i}
    /\ reqs' = SentChunk(reqs)
    /\ \E answer \in {"ok", "mismatch", "error"} :
        /\ acked' = IF answer = "ok" THEN acked \cup {i} ELSE acked
        /\ tpc' = [tpc EXCEPT ![i] =
                     CASE answer = "ok" -> "read"
                       [] answer = "mismatch" -> "cancel"
                       [] answer = "error" -> "TransportError"]
    /\ UNCHANGED <<workerFrame, transferred_size, is_cancelled, futures, tmp>>

\* the mismatch is raised without the cancel request
upload_blocking_cancel_unsent(i) ==
    /\ tpc[i] = "cancel"
    /\ tpc' = [tpc EXCEPT ![i] = "ChunkMismatch"]
    /\ UNCHANGED <<workerFrame, transferred_size, is_cancelled, futures, tmp,
                   posted, acked, reqs>>

\* lines 73-77: the cancel request of a mismatch (an error of the request
\* is swallowed), then the mismatch is raised
upload_blocking_cancel(i) ==
    /\ tpc[i] = "cancel"
    /\ reqs' = Sent(reqs, "cancel_worker")
    /\ tpc' = [tpc EXCEPT ![i] = "ChunkMismatch"]
    /\ UNCHANGED <<workerFrame, transferred_size, is_cancelled, futures, tmp,
                   posted, acked>>

\* line 322, job.transferred_size += item.size: the load of the attribute
do_upload_read(i) ==
    /\ tpc[i] = "read"
    /\ tmp' = [tmp EXCEPT ![i] = transferred_size]
    /\ tpc' = [tpc EXCEPT ![i] = "write"]
    /\ UNCHANGED <<workerFrame, transferred_size, is_cancelled, futures,
                   posted, acked, reqs>>

\* line 322, job.transferred_size += item.size: the add and the store
do_upload_write(i) ==
    /\ tpc[i] = "write"
    /\ transferred_size' = tmp[i] + upload_queue_items[i]
    /\ tmp' = [tmp EXCEPT ![i] = 0]
    /\ tpc' = [tpc EXCEPT ![i] = "returned"]
    /\ UNCHANGED <<workerFrame, is_cancelled, futures, posted, acked, reqs>>

(***************************************************************************)
(* The calls of the caller on the job.  Each read of a future's state is   *)
(* atomic (the Future's own lock); push_project_is_running is taken as one *)
(* step, a scan of job.futures in list order.                              *)
(***************************************************************************)
CanCall == pc = "idle" /\ calls < MaxCalls

\* lines 222-229: what the scan from future i on gives: the index of the
\* future whose exception is raised, or the value returned
RECURSIVE IsRunningFrom(_)
IsRunningFrom(i) ==
    IF i > Len(futures) THEN [ret |-> "False", raise |-> 0]
    ELSE IF Done(i) /\ futures[i].exception # "none"
         THEN [ret |-> futures[i].exception, raise |-> i]
    ELSE IF Running(i) THEN [ret |-> "True", raise |-> 0]
    ELSE IsRunningFrom(i + 1)

\* a scan that takes the exception it raises out of the future
push_project_is_running_consume ==
    /\ CanCall
    /\ calls' = calls + 1
    /\ LET r == IsRunningFrom(1) IN
        /\ last' = Returned("push_project_is_running", r.ret)
        /\ raised' = IF r.raise = 0 THEN raised
                     ELSE [raised EXCEPT ![r.raise] = @ + 1]
        /\ futures' = IF r.raise = 0 THEN futures
                      ELSE [futures EXCEPT ![r.raise].exception = "none"]
    /\ UNCHANGED <<pc, changes, transaction_id, total_size, transferred_size,
                   upload_queue_items, is_cancelled, executor, server_resp,
                   tmp_dir, workerVars, storeVars, reqs, busy, env>>

push_project_is_running ==
    /\ CanCall
    /\ calls' = calls + 1
    /\ LET r == IsRunningFrom(1) IN
        /\ last' = Returned("push_project_is_running", r.ret)
        /\ raised' = IF r.raise = 0 THEN raised
                     ELSE [raised EXCEPT ![r.raise] = @ + 1]
    /\ UNCHANGED <<pc, jobVars, workerVars, storeVars, reqs, busy, env>>

\* line 212: concurrent.futures.wait(job.futures) returns once all are done
push_project_wait ==
    /\ CanCall
    /\ Drained
    /\ calls' = calls + 1
    /\ last' = Returned("push_project_wait", "None")
    /\ UNCHANGED <<pc, jobVars, workerVars, storeVars, reqs, raised, busy, env>>

\* lines 242-245: job.executor.shutdown(wait=True) is entered
push_project_finalize_call ==
    /\ CanCall
    /\ calls' = calls + 1
    /\ pc' = "finalize"
    /\ executor' = "shutdown"
    /\ busy' = ~Drained
    /\ UNCHANGED <<changes, transaction_id, total_size, transferred_size,
                   upload_queue_items, is_cancelled, futures, server_resp,
                   tmp_dir, reqs, last, raised, env>>
    /\ UNCHANGED <<workerVars, storeVars>>

\* lines 245-293: the shutdown returns when the pool has drained; the rest
\* of push_project_finalize follows
push_project_finalize ==
    /\ pc = "finalize"
    /\ executor_shutdown
    /\ pc' = "idle"
    /\ FinalizeBody("push_project_finalize", server_resp, reqs)
    /\ UNCHANGED <<changes, transaction_id, total_size, transferred_size,
                   upload_queue_items, is_cancelled, executor, futures,
                   calls, raised, busy, env>>
    /\ UNCHANGED workerVars

\* a cancel that waits for the pool without setting the flag
push_project_cancel_call_noflag ==
    /\ CanCall
    /\ calls' = calls + 1
    /\ pc' = "cancel"
    /\ executor' = "shutdown"
    /\ busy' = ~Drained
    /\ UNCHANGED <<changes, transaction_id, total_size, transferred_size,
                   upload_queue_items, is_cancelled, futures, server_resp,
                   tmp_dir, reqs, last, raised, env>>
    /\ UNCHANGED <<workerVars, storeVars>>

\* lines 302-306: the flag is set, then job.executor.shutdown(wait=True)
\* is entered
push_project_cancel_call ==
    /\ CanCall
    /\ calls' = calls + 1
    /\ pc' = "cancel"
    /\ is_cancelled' = TRUE
    /\ executor' = "shutdown"
    /\ busy' = ~Drained
    /\ UNCHANGED <<changes, transaction_id, total_size, transferred_size,
                   upload_queue_items, futures, server_resp, tmp_dir, reqs,
                   last, raised, env>>
    /\ UNCHANGED <<workerVars, storeVars>>

\* lines 306-313: the shutdown returns when the pool has drained; the
\* cancel request follows, and its error is raised
push_project_cancel ==
    /\ pc = "cancel"
    /\ executor_shutdown
    /\ pc' = "idle"
    /\ \E cancel_ok \in BOOLEAN :
        /\ reqs' = Sent(reqs, "cancel_user")
        /\ IF cancel_ok
           THEN /\ server_resp' = [kind |-> "cancel", version |-> None]
                /\ last' = Returned("push_project_cancel", "None")
           ELSE /\ UNCHANGED server_resp
                /\ last' = Returned("push_project_cancel", "CancelError")
    /\ UNCHANGED <<changes, transaction_id, total_size, transferred_size,
                   upload_queue_items, is_cancelled, executor, futures,
                   tmp_dir, calls, raised, busy, env>>
    /\ UNCHANGED <<workerVars, storeVars>>

Next ==
    \/ push_project_async_begin
    \/ push_project_async_open
    \/ push_project_async_submit
    \/ push_project_async_return
    \/ \E i \in Submitted : worker_start(i)
    \/ \E i \in Submitted : worker_finish(i)
    \/ \E i \in Submitted : do_upload_check(i)
    \/ \E i \in Submitted : upload_blocking_post(i)
    \/ \E i \in Submitted : upload_blocking_cancel(i)
    \/ \E i \in Submitted : do_upload_read(i)
    \/ \E i \in Submitted : do_upload_write(i)
    \/ push_project_is_running
    \/ push_project_wait
    \/ push_project_finalize_call
    \/ push_project_finalize
    \/ push_project_cancel_call
    \/ push_project_cancel

Spec == Init /\ [][Next]_vars

(***************************************************************************)
(* The chunk planner alone: push_project_async up to the queue of upload   *)
(* items, for a project whose checks pass, over the change sets of         *)
(* PlanChangeSets.                                                         *)
(***************************************************************************)
ChecksPass ==
    [unfinished_pull |-> FALSE, info_ok |-> TRUE,
     info_version |-> LocalVersion, writer |-> TRUE, owner |-> FALSE,
     enough_free_space |-> TRUE]

InitPlanner == Init /\ env = ChecksPass

push_project_async_begin_plan == Begin(PlanChangeSets)

NextPlanner ==
    \/ push_project_async_begin_plan
    \/ push_project_async_open

SpecPlanner == InitPlanner /\ [][NextPlanner]_vars

(***************************************************************************)
(* A push of more upload items than the pool has threads, which the caller *)
(* cancels: one updated file per thread of the pool and one more, each     *)
(* uploaded as a diff of one chunk.                                        *)
(***************************************************************************)
LargeChanges ==
    [added |-> << >>,
     updated |-> [k \in 1..(max_workers + 1) |->
                    FileEntry(UPLOAD_CHUNK_SIZE + 1, 2)],
     removed |-> 0]

InitCancel == Init /\ env = ChecksPass

push_project_async_begin_large == Begin({LargeChanges})

NextCancel ==
    \/ push_project_async_begin_large
    \/ push_project_async_open
    \/ push_project_async_submit
    \/ push_project_async_return
    \/ \E i \in Submitted : worker_start(i)
    \/ \E i \in Submitted : worker_finish(i)
    \/ \E i \in Submitted : do_upload_check(i)
    \/ \E i \in Submitted : upload_blocking_post(i)
    \/ \E i \in Submitted : upload_blocking_cancel(i)
    \/ \E i \in Submitted : do_upload_read(i)
    \/ \E i \in Submitted : do_upload_write(i)
    \/ push_project_cancel_call
    \/ push_project_cancel

SpecCancel == InitCancel /\ [][NextCancel]_vars

(***************************************************************************)
(* Properties                                                              *)
(***************************************************************************)
NoRequests == [open |-> 0, finish |-> 0, cancel_worker |-> 0,
               cancel_finalize |-> 0, cancel_user |-> 0,
               cancel_finalize_errors |-> 0, chunk_after_flag |-> 0]

CancelReqs == reqs.cancel_worker + reqs.cancel_finalize + reqs.cancel_user

\* the job has been returned to the caller
JobReturned == pc \in {"idle", "finalize", "cancel"}

\* the futures that carry the given exception
Failed(exception) == {i \in Submitted : futures[i].exception = exception}

\* the calls that returned at the cancellation check, without a request
Skipped == {i \in Submitted : Done(i) /\ i \notin posted}

\* C1: when every upload task of a job has succeeded, transferred_size is
\* the sum of the task sizes, which is total_size: no += is lost.
C1_NoLostIncrement ==
    (JobReturned /\ Drained /\ acked = Items)
        => (transferred_size = SumSeq(upload_queue_items)
            /\ transferred_size = total_size)

\* C2: push_project_finalize on a job with transferred_size < total_size
\* and no exception in its futures raises the size mismatch and leaves the
\* requests sent, server_resp, the metadata and the files of the local
\* store as they were.
C2_SizeMismatchNoOp ==
    [][(pc = "finalize" /\ pc' = "idle"
        /\ FirstException(futures, 1) = "none"
        /\ transferred_size < total_size)
       => (/\ last' = Returned("push_project_finalize", "SizeMismatch")
           /\ reqs' = reqs
           /\ server_resp' = server_resp
           /\ server_resp'.kind # "finish"
           /\ metadata' = metadata
           /\ applied' = applied
           /\ tmp_dir' = tmp_dir)]_vars

\* a finalize that has raised the size mismatch on a job with a transaction
C2_Witness ==
    /\ last = Returned("push_project_finalize", "SizeMismatch")
    /\ transferred_size < total_size
    /\ transaction_id # None
    /\ reqs.finish = 0

\* C3: a call starts (and sends its chunk request) only after the
\* transaction-open response; the finish request is sent only when every
\* upload task has been submitted and has reached a terminal state.
C3_CausalOrder ==
    /\ (\E i \in Submitted : tpc[i] # "queued")
          => (reqs.open > 0 /\ transaction_id # None)
    /\ posted # {} => reqs.open > 0
    /\ reqs.finish > 0 => (AllSubmitted /\ Drained)

\* finalize was called while calls were still executing, and later sent
\* the finish request
C3_Witness ==
    /\ busy
    /\ last.op = "push_project_finalize"
    /\ reqs.finish = 1
    /\ posted = Items
    /\ Items # {}

\* the steps of the caller's calls
IsRunningStep ==
    /\ pc = "idle" /\ pc' = "idle"
    /\ calls' = calls + 1
    /\ last'.op = "push_project_is_running"

FinalizeStep == pc = "finalize" /\ pc' = "idle"

CancelStep == pc = "cancel" /\ pc' = "idle"

\* the calls that raised the chunk mismatch
Mismatched ==
    {i \in Submitted : tpc[i] = "ChunkMismatch"
                       \/ futures[i].exception = "ChunkMismatch"}

\* every upload has ended, exactly one with a chunk mismatch, every other
\* one acknowledged by the server
OneMismatch ==
    /\ JobReturned /\ AllSubmitted /\ Drained
    /\ Cardinality(Failed("ChunkMismatch")) = 1
    /\ acked = Items \ Failed("ChunkMismatch")

\* C4 as stated: with exactly one chunk mismatch and every other transfer
\* successful, no finish request and exactly one cancel request are sent.
C4_ExactlyOneCancel ==
    OneMismatch => (reqs.finish = 0 /\ CancelReqs = 1)

\* C4, amended: with exactly one chunk mismatch and every other transfer
\* successful, push_project_is_running and push_project_finalize raise the
\* chunk mismatch and send nothing, no finish request is ever sent, and the
\* mismatch itself makes exactly one cancel request (the worker's); each
\* push_project_cancel of the caller sends one more.
C4_OneCancelByWorker ==
    /\ [](OneMismatch =>
            /\ reqs.finish = 0
            /\ reqs.cancel_worker = 1
            /\ reqs.cancel_finalize = 0
            /\ CancelReqs = 1 + reqs.cancel_user)
    /\ [][(OneMismatch /\ (IsRunningStep \/ FinalizeStep))
            => (last'.ret = "ChunkMismatch" /\ reqs' = reqs)]_vars

\* finalize has raised the single chunk mismatch of a job of several items
C4_Witness ==
    /\ OneMismatch
    /\ Cardinality(Items) > 1
    /\ last = Returned("push_project_finalize", "ChunkMismatch")
    /\ CancelReqs = 1

\* C5: push_project_cancel sets the flag before it waits for the pool; it
\* sends its cancel request only when the pool has drained; after that no
\* chunk request is sent; and when it was called during the uploads, on its
\* return the job is cancelled and no finish request was ever sent.
C5_CancelOrder ==
    /\ [](pc = "cancel" => is_cancelled)
    /\ [](reqs.cancel_user > 0 => (is_cancelled /\ AllSubmitted /\ Drained))
    /\ [][reqs.cancel_user > 0 => posted' = posted]_vars
    /\ [][(CancelStep /\ busy)
            => (/\ reqs'.cancel_user = reqs.cancel_user + 1
                /\ reqs'.finish = 0
                /\ is_cancelled'
                /\ last'.op = "push_project_cancel"
                /\ last'.ret \in {"None", "CancelError"}
                /\ server_resp'.kind # "finish"
                /\ (last'.ret = "None" => server_resp'.kind = "cancel"))]_vars

\* a cancel during the uploads has returned: some items were uploaded, some
\* were skipped
C5_Witness ==
    /\ pc = "idle"
    /\ busy
    /\ last = Returned("push_project_cancel", "None")
    /\ acked # {}
    /\ Skipped # {}

\* the errors the caller gets once a transaction is open, but for the
\* failure of the local application
UploadErrors == {"ChunkMismatch", "TransportError", "SizeMismatch",
                 "FinishError"}

\* C6 as stated: every error push_project_finalize raises after the
\* transaction was opened (but the failed local application) comes after a
\* compensating cancel request.
C6_CancelBeforeEveryError ==
    (last.op = "push_project_finalize" /\ last.ret \in UploadErrors)
        => reqs.cancel_worker + reqs.cancel_finalize > 0

\* C6, amended: a worker sends one cancel request before it raises a chunk
\* mismatch, and push_project_finalize sends one after a failed finish
\* request, before the error is raised; for a worker's transport error, for
\* the size mismatch and for a failed local application no cancel request
\* is sent.
C6_CancelOnMismatchOrFinishError ==
    /\ [](reqs.cancel_worker = Cardinality(Mismatched))
    /\ [][FinalizeStep =>
            CASE last'.ret = "FinishError" ->
                   /\ reqs'.finish = reqs.finish + 1
                   /\ reqs'.cancel_finalize = reqs.cancel_finalize + 1
              [] last'.ret \in {"ChunkMismatch", "TransportError",
                                "SizeMismatch"} -> reqs' = reqs
              [] OTHER ->
                   /\ last'.ret \in {"None", "ApplyError"}
                   /\ reqs' = Sent(reqs, "finish")]_vars

\* finalize has raised the error of a failed finish request, after the
\* cancel request
C6_Witness ==
    /\ last = Returned("push_project_finalize", "FinishError")
    /\ reqs.finish = 1
    /\ reqs.cancel_finalize = 1
    /\ reqs.cancel_worker = 0

\* C7: when push_project_is_running returns false, every submitted upload
\* task has reached a terminal state.
C7_FalseMeansFinished ==
    last = Returned("push_project_is_running", "False") => Drained

\* C8: a call of push_project_is_running made while some task has ended
\* with an error raises (it returns neither true nor false).
C8_RaisesAnyError ==
    [][(IsRunningStep
        /\ \E i \in Submitted : Done(i) /\ futures[i].exception # "none")
       => last'.ret \notin {"True", "False"}]_vars

\* C9 as stated: push_project_is_running raises the error of a task at
\* most once.
C9_RaisesOnce ==
    \A i \in 1..Len(raised) : raised[i] <= 1

\* C9, amended: push_project_is_running never changes the job (nor the
\* local store, nor the requests sent), and it raises the error of the
\* first failed task again at every call made once the pool has drained.
C9_NoMutationRaisesAgain ==
    [][IsRunningStep =>
         /\ UNCHANGED <<jobVars, workerVars, storeVars, reqs>>
         /\ (Drained /\ FirstException(futures, 1) # "none")
               => last'.ret = FirstException(futures, 1)]_vars

\* the same error has been raised by two calls
C9_Witness ==
    \E i \in 1..Len(raised) : raised[i] = 2

\* C10: when a check of push_project_async fails, the call raises, no
\* request of a transaction (open, chunk, finish, cancel) has been sent and
\* there is no job.
PreconditionErrors == {"UnfinishedPull", "ProjectInfoError", "NoWriteAccess",
                       "VersionMismatch", "StorageLimit"}

PreconditionFails ==
    \/ env.unfinished_pull
    \/ ~env.info_ok
    \/ ~env.writer
    \/ ServerVersion(env.info_version) # LocalVersion
    \/ (env.owner /\ ~env.enough_free_space)

C10_PreconditionNoRequest ==
    (pc # "start" /\ PreconditionFails)
        => (/\ pc = "done"
            /\ last.op = "push_project_async"
            /\ last.ret \in PreconditionErrors
            /\ reqs = NoRequests
            /\ posted = {}
            /\ executor = "none"
            /\ futures = << >>
            /\ transaction_id = None)

\* the local copy is at another version than the server, and the call
\* has raised
C10_Witness ==
    /\ pc = "done"
    /\ last = Returned("push_project_async", "VersionMismatch")
    /\ ServerVersion(env.info_version) > LocalVersion

\* the call found nothing to push: the checks passed and the change set of
\* the local store has no entry
EmptyPush == pc # "start" /\ ~PreconditionFails /\ changes = NoChanges

\* C11: when the change set is empty, push_project_async returns None and
\* has sent no open, chunk, finish or cancel request, has made no pool and
\* no upload task, and has left the metadata and the files of the local
\* store as they were.
C11_EmptyPushNoEffect ==
    EmptyPush
        => (/\ pc = "done"
            /\ last = Returned("push_project_async", "None")
            /\ reqs = NoRequests
            /\ posted = {}
            /\ executor = "none"
            /\ futures = << >>
            /\ upload_queue_items = << >>
            /\ transaction_id = None
            /\ metadata = LocalVersion
            /\ applied = 0)

\* the user owns the project, the free space was asked for, and the call
\* returned None for an empty change set
C11_Witness ==
    /\ EmptyPush
    /\ env.owner
    /\ pc = "done"
    /\ last = Returned("push_project_async", "None")
    /\ reqs.open = 0

\* push_project_async ended without a job, or push_project_finalize or
\* push_project_cancel has come back
PushEnded ==
    \/ pc = "done"
    \/ (pc = "idle" /\ last.op \in {"push_project_finalize",
                                    "push_project_cancel"})

\* C12: the temporary directory of a push is released on every way out:
\* when push_project_async ends without a job (an error after the directory
\* was made, or None), when push_project_finalize succeeds or fails, and
\* when push_project_cancel returns; it is never held once the push ended.
C12_TmpDirReleased == PushEnded => tmp_dir # "held"

\* a step of push_project_finalize that sent the finish request and did
\* not get the commit, or that sent a cancel request
FinishFailed ==
    /\ FinalizeStep
    /\ \/ reqs'.cancel_finalize # reqs.cancel_finalize
       \/ (reqs'.finish # reqs.finish
             /\ last'.ret \notin {"None", "ApplyError"})

\* C13: when the finish request fails, push_project_finalize sends exactly
\* one cancel request, raises the error of the finish request whether or
\* not that cancel request failed, and leaves server_resp, the metadata and
\* the files of the local store as they were.
C13_FinishFailure ==
    [][FinishFailed
         => (/\ reqs'.finish = reqs.finish + 1
             /\ reqs'.cancel_finalize = reqs.cancel_finalize + 1
             /\ reqs'.cancel_worker = reqs.cancel_worker
             /\ reqs'.cancel_user = reqs.cancel_user
             /\ last' = Returned("push_project_finalize", "FinishError")
             /\ server_resp' = server_resp
             /\ metadata' = metadata
             /\ applied' = applied)]_vars

\* the finish request failed, the cancel request after it failed too, and
\* the call raised the error of the finish request
C13_Witness ==
    /\ pc = "idle"
    /\ last = Returned("push_project_finalize", "FinishError")
    /\ reqs.finish = 1
    /\ reqs.cancel_finalize = 1
    /\ reqs.cancel_finalize_errors = 1
    /\ metadata = LocalVersion
    /\ applied = 0

\* the terminal states of a job, read from what the calls left behind:
\* the commit has replaced the metadata; push_project_finalize reported a
\* chunk or size mismatch; push_project_cancel returned with the answer of
\* the cancel request in job.server_resp
Committed == metadata # LocalVersion

Aborted ==
    /\ pc = "idle"
    /\ last.op = "push_project_finalize"
    /\ last.ret \in {"ChunkMismatch", "SizeMismatch"}

Cancelled == server_resp.kind = "cancel"

\* C14: COMMITTED, ABORTED and CANCELLED are terminal: once a job is in
\* one of them, no step sends a further finish request for its transaction
\* or commits it (again).
C14_TerminalStates ==
    [][(Committed \/ Aborted \/ Cancelled)
         => (/\ reqs'.finish = reqs.finish
             /\ metadata' = metadata
             /\ applied' = applied)]_vars

\* the files whose chunks are uploaded, in the order of the planner
UploadFiles == changes.added \o changes.updated

\* the file carries the chunk ids of its upload size
ChunkIdsMatch(file) ==
    file.chunks = CeilDiv(UploadSize(file), UPLOAD_CHUNK_SIZE)

\* the index, in the queue, of the last item of file j
LastItemOf(j) == SumSeq([k \in 1..j |-> UploadFiles[k].chunks])

\* the size of the last chunk of an upload of the given size
LastChunkSize(size) ==
    IF size % UPLOAD_CHUNK_SIZE = 0 THEN UPLOAD_CHUNK_SIZE
    ELSE size % UPLOAD_CHUNK_SIZE

Planned == pc = "submit" /\ \A j \in DOMAIN UploadFiles : ChunkIdsMatch(UploadFiles[j])

\* C15: for files that each carry ceil(size / UPLOAD_CHUNK_SIZE) chunk ids
\* (size: of the diff for a file uploaded as a diff), the sizes of the
\* upload tasks sum to total_size, which is the sum of the upload sizes of
\* the files; no task is larger than UPLOAD_CHUNK_SIZE; and the last task
\* of each file has size (size mod UPLOAD_CHUNK_SIZE), or a full chunk when
\* the size is a multiple of it.
C15_ChunkPlan ==
    Planned
        => (/\ SumSeq(upload_queue_items) = total_size
            /\ total_size =
                 SumSeq([j \in DOMAIN UploadFiles |-> UploadSize(UploadFiles[j])])
            /\ Len(upload_queue_items) = LastItemOf(Len(UploadFiles))
            /\ \A i \in DOMAIN upload_queue_items :
                 upload_queue_items[i] <= UPLOAD_CHUNK_SIZE
            /\ \A j \in DOMAIN UploadFiles :
                 UploadFiles[j].chunks > 0
                   => upload_queue_items[LastItemOf(j)]
                        = LastChunkSize(UploadSize(UploadFiles[j])))

\* planned: a file of two full chunks, a file of one chunk and one byte
\* more, and an updated file uploaded as a diff of more than one chunk
C15_Witness ==
    /\ Planned
    /\ Len(changes.added) = 2
    /\ changes.added[1].size = 2 * UPLOAD_CHUNK_SIZE
    /\ changes.added[2].size = UPLOAD_CHUNK_SIZE + 1
    /\ Len(changes.updated) = 1
    /\ changes.updated[1].diff = UPLOAD_CHUNK_SIZE + 1
    /\ upload_queue_items =
         <<UPLOAD_CHUNK_SIZE, UPLOAD_CHUNK_SIZE, UPLOAD_CHUNK_SIZE, 1,
           UPLOAD_CHUNK_SIZE, 1>>

\* C16: transferred_size only grows: no step lowers it, and it never
\* exceeds total_size.
C16_TransferredMonotonic ==
    /\ [](transferred_size <= total_size)
    /\ [][transferred_size' >= transferred_size]_vars

\* a step of call i that finds the flag set before the call has passed the
\* check of line 318
StartsCancelled(i) ==
    /\ is_cancelled
    /\ tpc[i] \in {"queued", "check"}
    /\ tpc'[i] # tpc[i]

\* a step of call i, whose chunk is being transferred, with the flag set
TransfersCancelled(i) ==
    /\ is_cancelled
    /\ tpc[i] = "post"
    /\ tpc'[i] # tpc[i]

\* C17: a task that starts after the flag is_cancelled was set sends no
\* chunk request, raises no error and leaves transferred_size as it was; a
\* task whose transfer had begun sends its request and ends the way the
\* server's answer decides; and after the flag was set at most max_workers
\* chunk requests are sent in all, one per thread of the pool.
C17_CooperativeCancel ==
    /\ [](reqs.chunk_after_flag <= max_workers)
    /\ [](\A i \in Skipped : futures[i].exception = "none")
    /\ [][\A i \in Items :
            /\ StartsCancelled(i)
                 => (/\ tpc'[i] \in {"check", "returned"}
                     /\ posted' = posted
                     /\ reqs' = reqs
                     /\ transferred_size' = transferred_size)
            /\ TransfersCancelled(i)
                 => (/\ i \in posted'
                     /\ reqs'.chunk_after_flag = reqs.chunk_after_flag + 1
                     /\ tpc'[i] \in {"read", "cancel", "TransportError"})]_vars

\* the job of max_workers + 1 items was cancelled with every thread of the
\* pool before its chunk request: the max_workers requests were sent after
\* the flag was set and acknowledged, and the last item was skipped
C17_Witness ==
    /\ is_cancelled
    /\ Drained
    /\ Cardinality(Items) = max_workers + 1
    /\ reqs.chunk_after_flag = max_workers
    /\ Cardinality(acked) = max_workers
    /\ Skipped = {max_workers + 1}
    /\ transferred_size = SumSeq(upload_queue_items) - upload_queue_items[max_workers + 1]

\* the bytes of the items of S
SizeOf(S) ==
    SumSeq([i \in DOMAIN upload_queue_items |->
              IF i \in S THEN upload_queue_items[i] ELSE 0])

\* the calls whose chunk was acknowledged and whose += has been done
Counted == {i \in acked : tpc[i] \in {"returned", "end"}}

\* C18: a finish request is sent only when every upload task has sent its
\* chunk and the server has acknowledged it, however the += of the threads
\* and a cancellation interleave: transferred_size is never more than the
\* bytes of the tasks that were acknowledged and counted.
C18_FinishOnlyAfterAllUploads ==
    /\ transferred_size <= SizeOf(Counted)
    /\ reqs.finish > 0
         => (/\ Drained
             /\ posted = Items
             /\ acked = Items
             /\ transferred_size = total_size)

\* the caller cancelled a job of three items whose calls had all passed
\* the check of the flag, then finalized it: every chunk was acknowledged
\* and the finish request was sent
C18_Witness ==
    /\ reqs.finish = 1
    /\ is_cancelled
    /\ reqs.chunk_after_flag > 0
    /\ Cardinality(Items) = 3
    /\ acked = Items
    /\ last.op = "push_project_finalize"

\* C19: once a worker has sent the cancel request of a chunk mismatch, no
\* call of the job goes from the check of the flag on to a chunk request:
\* the tasks still queued are stopped.
C19_MismatchStopsQueue ==
    [][reqs.cancel_worker > 0
         => \A i \in Items :
              tpc[i] \in {"queued", "check"} => tpc'[i] # "post"]_vars

\* push_project_async has ended for a change set that has entries, none of
\* them an added or an updated file
RemovalOnlyPush ==
    /\ pc \notin {"start", "open"}
    /\ changes # NoChanges
    /\ UploadFiles = << >>

\* C20: for a change set with entries but no added or updated file,
\* push_project_async sends the open request, makes no pool and no upload
\* task, and finalizes on the spot with the answer to the open request as
\* the server response: the metadata are replaced by it and the change set
\* is applied, no chunk, finish or cancel request is sent, and the call
\* returns None (or raises the error of the open request or of the local
\* application).
C20_NoUploadPush ==
    RemovalOnlyPush
        => (/\ pc = "done"
            /\ last.op = "push_project_async"
            /\ last.ret \in {"None", "OpenError", "ApplyError"}
            /\ reqs = Sent(NoRequests, "open")
            /\ posted = {}
            /\ executor = "none"
            /\ futures = << >>
            /\ upload_queue_items = << >>
            /\ transaction_id = None
            /\ last.ret = "OpenError"
                 => (/\ server_resp = NoResp
                     /\ metadata = LocalVersion
                     /\ applied = 0)
            /\ last.ret # "OpenError"
                 => (/\ server_resp = [kind |-> "open",
                                       version |-> NextVersion(LocalVersion)]
                     /\ metadata = server_resp.version)
            /\ last.ret = "None" => (applied = 1 /\ tmp_dir = "released")
            /\ last.ret = "ApplyError" => applied = 0)

\* a change set of one removal was pushed: the answer to the open request
\* became the server response and the metadata, the change was applied
C20_Witness ==
    /\ RemovalOnlyPush
    /\ changes.removed = 1
    /\ last = Returned("push_project_async", "None")
    /\ server_resp.kind = "open"
    /\ metadata = NextVersion(LocalVersion)
    /\ applied = 1
    /\ reqs.open = 1
    /\ reqs.finish = 0

=============================================================================
